---- MODULE Spec2Model ----
(***************************************************************************)
(* Model of src/src/windows_provider.cpp: the COM worker-thread dispatcher *)
(* (CoThreadDispatcher), the reference-counted registry that shares one    *)
(* dispatcher (com_dispatcher_addref / com_dispatcher_release) and the     *)
(* provider entry points that drive them (init_enchant_provider, the       *)
(* provider operations, windows_provider_dispose).                         *)
(*                                                                         *)
(* Host threads ("callers") run the provider entry points.  Every          *)
(* CoThreadDispatcher that is ever constructed has an identity g in Gens;  *)
(* its members and its worker thread are the g-th components of the        *)
(* dispatcher variables.                                                   *)
(***************************************************************************)
EXTENDS Integers, Sequences, FiniteSets, TLC

\* ------------------------------------------------------------------ bounds
\* Number of host threads that use the provider concurrently.
NumCallers == 2
\* Number of CoThreadDispatcher objects the model lets the process construct.
MaxGen == 2
\* The host stops calling the plugin's entry points once this many dispatch()
\* calls have begun (a destructor's own dispatch() call is always made).
MaxCalls == 4

Callers == 1..NumCallers
Gens == 1..MaxGen

\* Thread identities: the host threads are Callers; a mutex held by nobody has
\* owner NoThread; dispatch_thread of dispatcher g is WorkerOf(g).
NoThread == 0
WorkerOf(g) == NumCallers + g
Threads == Callers \cup {WorkerOf(g) : g \in Gens}

\* "no value" markers: a null com_dispatcher, an empty std::function, a future
\* that is not ready, no callable.
Null == 0
NoFn == <<>>
NoResult == <<>>
NoWork == [kind |-> "none", raises |-> FALSE]

VARIABLES
    \* ---- registry (file statics, lines 124-126)
    com_dispatcher_mutex,     \* holder of com_dispatcher_mutex: NoThread or a caller
    com_dispatcher,           \* Null or the identity of the dispatcher owned
    com_dispatcher_refcount,  \* uint32_t reference count; it stays far below 2^32
                              \* here (one reference per host thread), so no wrap
    nextGen,                  \* identity the next constructed dispatcher gets
    \* ---- CoThreadDispatcher members, per dispatcher (lines 117-121)
    running,                  \* bool running
    processing_mutex,         \* holder: NoThread, the worker thread or a caller
    dispatched_function,      \* NoFn (empty std::function) or <<c, n>>: the lambda
                              \* [&task] referring to the task of c's n-th dispatch() call
    wpc,                      \* position of the worker thread in threadProc
    hr,                       \* CoInitializer::hr: "none", "ok", "failed"
    uninits,                  \* number of CoUninitialize() calls made by the thread
    cur,                      \* owner of the task the worker is executing, or Null
    \* ---- host threads
    pc,                       \* position of each caller
    work,                     \* the callable passed to the caller's current dispatch()
    callNo,                   \* number of dispatch() calls the caller has begun
    cg,                       \* `this` of the caller's current dispatch() call
    future,                   \* shared state of the caller's packaged_task / future
    observed,                 \* what the caller's last dispatch() call surfaced
    ran,                      \* times the caller's current task's callable completed
    \* ---- observation of the run
    obj,                      \* lifetime of each dispatcher object: "none", "alive",
                              \* "destroying" (inside its destructor), "destroyed"
    active,                   \* units of work in execution: <<thread, owner>>
    pending                   \* submitted, not yet executed tasks in the order their
                              \* dispatch() calls acquired processing_mutex

regVars == <<com_dispatcher_mutex, com_dispatcher, com_dispatcher_refcount, nextGen>>
dispVars == <<running, processing_mutex, dispatched_function, wpc, hr, uninits, cur>>
callerVars == <<pc, work, callNo, cg, future, observed, ran>>
obsVars == <<obj, active, pending>>
vars == <<regVars, dispVars, callerVars, obsVars>>

\* ------------------------------------------------------------- callables
\* The callables the entry points dispatch.  "create": init_enchant_provider's
\* lambda; "op": a provider/dictionary operation; "delete": the lambda of
\* windows_provider_dispose; "stop": the destructor's [&]{ running = false; }.
\* dispatch() is a template over any callable, so "create" and "op" may raise.
Work(k, r) == [kind |-> k, raises |-> r]

\* What invoking the callable of caller c produces: a value or an error, each
\* carrying the identity of the call it belongs to.
Outcome(c, w) ==
    IF w.raises THEN <<"error", c, w.kind>> ELSE <<"value", c, w.kind>>

IsError(out) == out # NoResult /\ out[1] = "error"

\* A caller is inside dispatch() with its packaged_task alive on its stack.
InDispatch(c) == pc[c] \in {"d_task", "d_locked", "d_wait"}

\* The task object of c's n-th dispatch() call is alive.
TaskAlive(c, n) == InDispatch(c) /\ callNo[c] = n

\* dispatch() calls begun so far, by all host threads.
RECURSIVE SumCalls(_)
SumCalls(S) ==
    IF S = {} THEN 0
    ELSE LET c == CHOOSE x \in S : TRUE IN callNo[c] + SumCalls(S \ {c})

\* The host still issues calls into the plugin.
HostCalls == SumCalls(Callers) < MaxCalls

\* std::terminate ends the process: no thread takes a step after it.
Crashed ==
    \/ \E g \in Gens : wpc[g] = "terminated"
    \/ \E c \in Callers : pc[c] = "terminated"

\* ------------------------------------------------------------------ Init
\* Process start: no dispatcher, count 0 (lines 124-126); no host thread has
\* entered the plugin.
Init ==
    /\ com_dispatcher_mutex = NoThread
    /\ com_dispatcher = Null
    /\ com_dispatcher_refcount = 0
    /\ nextGen = 1
    /\ running = [g \in Gens |-> FALSE]
    /\ processing_mutex = [g \in Gens |-> NoThread]
    /\ dispatched_function = [g \in Gens |-> NoFn]
    /\ wpc = [g \in Gens |-> "none"]
    /\ hr = [g \in Gens |-> "none"]
    /\ uninits = [g \in Gens |-> 0]
    /\ cur = [g \in Gens |-> Null]
    /\ pc = [c \in Callers |-> "idle"]
    /\ work = [c \in Callers |-> NoWork]
    /\ callNo = [c \in Callers |-> 0]
    /\ cg = [c \in Callers |-> Null]
    /\ future = [c \in Callers |-> NoResult]
    /\ observed = [c \in Callers |-> NoResult]
    /\ ran = [c \in Callers |-> 0]
    /\ obj = [g \in Gens |-> "none"]
    /\ active = {}
    /\ pending = <<>>

\* ------------------------------------------------- registry: addref
\* Variant of CanLockRegistry: the registry is not locked at all.
CanLockRegistryNoMutex(c) == TRUE

\* std::lock_guard<std::mutex> lock(com_dispatcher_mutex) can be taken.
CanLockRegistry(c) == com_dispatcher_mutex = NoThread

\* Variant of AddrefConstructs: every acquire constructs a dispatcher, whatever
\* the count.
AddrefConstructsAlways(n) == TRUE

\* if (com_dispatcher_refcount == 0)
AddrefConstructs(n) == n = 0

\* Variant of ReleaseDestroys: the test is made against the count after the
\* decrement although the decrement comes later.
ReleaseDestroysAtZero(n) == n = 0

\* if (com_dispatcher_refcount == 1)
ReleaseDestroys(n) == n = 1

\* init_enchant_provider is entered by a host thread.
InitProvider(c) ==
    /\ ~Crashed
    /\ pc[c] = "idle"
    /\ HostCalls
    /\ pc' = [pc EXCEPT ![c] = "addref"]
    /\ UNCHANGED <<regVars, dispVars, work, callNo, cg, future, observed, ran, obsVars>>

AddrefLock(c) ==
    /\ ~Crashed
    /\ pc[c] = "addref"
    /\ CanLockRegistry(c)
    /\ com_dispatcher_mutex' = c
    /\ pc' = [pc EXCEPT ![c] = "addref_check"]
    /\ UNCHANGED <<com_dispatcher, com_dispatcher_refcount, nextGen, dispVars,
                   work, callNo, cg, future, observed, ran, obsVars>>

\* Variant of AddrefConstruct: the constructor itself calls CoInitializeEx, on
\* the application's thread, instead of leaving it to threadProc.
AddrefConstructCoInit(c) ==
    /\ ~Crashed
    /\ pc[c] = "addref_check"
    /\ AddrefConstructs(com_dispatcher_refcount)
    /\ nextGen <= MaxGen
    /\ com_dispatcher' = nextGen
    /\ nextGen' = nextGen + 1
    /\ running' = [running EXCEPT ![nextGen] = FALSE]
    /\ wpc' = [wpc EXCEPT ![nextGen] = "spawned"]
    /\ \E r \in {"ok", "failed"} : hr' = [hr EXCEPT ![nextGen] = r]
    /\ obj' = [obj EXCEPT ![nextGen] = "alive"]
    /\ pc' = [pc EXCEPT ![c] = "addref_inc"]
    /\ UNCHANGED <<com_dispatcher_mutex, com_dispatcher_refcount, processing_mutex,
                   dispatched_function, uninits, cur, work, callNo, cg, future,
                   observed, ran, active, pending>>

\* com_dispatcher = std::make_unique<CoThreadDispatcher>(): the constructor sets
\* running(false) and starts the thread on threadProc; it does not wait for it.
AddrefConstruct(c) ==
    /\ ~Crashed
    /\ pc[c] = "addref_check"
    /\ AddrefConstructs(com_dispatcher_refcount)
    /\ nextGen <= MaxGen
    /\ com_dispatcher' = nextGen
    /\ nextGen' = nextGen + 1
    /\ running' = [running EXCEPT ![nextGen] = FALSE]
    /\ wpc' = [wpc EXCEPT ![nextGen] = "spawned"]
    /\ obj' = [obj EXCEPT ![nextGen] = "alive"]
    /\ pc' = [pc EXCEPT ![c] = "addref_inc"]
    /\ UNCHANGED <<com_dispatcher_mutex, com_dispatcher_refcount, processing_mutex,
                   dispatched_function, hr, uninits, cur, work, callNo, cg, future,
                   observed, ran, active, pending>>

\* Variant of AddrefThrow: the count is incremented before the dispatcher is
\* constructed, and stays incremented when construction throws.
AddrefThrowCounted(c) ==
    /\ ~Crashed
    /\ pc[c] = "addref_check"
    /\ AddrefConstructs(com_dispatcher_refcount)
    /\ com_dispatcher_refcount' = com_dispatcher_refcount + 1
    /\ com_dispatcher_mutex' = NoThread
    /\ pc' = [pc EXCEPT ![c] = "addref_threw"]
    /\ UNCHANGED <<com_dispatcher, nextGen, dispVars, work, callNo, cg, future,
                   observed, ran, obsVars>>

\* std::thread's constructor throws std::system_error (no thread can be
\* created): the exception leaves com_dispatcher_addref, unlocking the
\* lock_guard, before com_dispatcher is assigned or the count incremented.
AddrefThrow(c) ==
    /\ ~Crashed
    /\ pc[c] = "addref_check"
    /\ AddrefConstructs(com_dispatcher_refcount)
    /\ com_dispatcher_mutex' = NoThread
    /\ pc' = [pc EXCEPT ![c] = "addref_threw"]
    /\ UNCHANGED <<com_dispatcher, com_dispatcher_refcount, nextGen, dispVars,
                   work, callNo, cg, future, observed, ran, obsVars>>

AddrefSkip(c) ==
    /\ ~Crashed
    /\ pc[c] = "addref_check"
    /\ ~AddrefConstructs(com_dispatcher_refcount)
    /\ pc' = [pc EXCEPT ![c] = "addref_inc"]
    /\ UNCHANGED <<regVars, dispVars, work, callNo, cg, future, observed, ran, obsVars>>

\* ++com_dispatcher_refcount; the lock_guard unlocks on return.
AddrefInc(c) ==
    /\ ~Crashed
    /\ pc[c] = "addref_inc"
    /\ com_dispatcher_refcount' = com_dispatcher_refcount + 1
    /\ com_dispatcher_mutex' = NoThread
    /\ pc' = [pc EXCEPT ![c] = "init_call"]
    /\ UNCHANGED <<com_dispatcher, nextGen, dispVars, work, callNo, cg, future,
                   observed, ran, obsVars>>

\* ------------------------------------------------------- dispatch()
\* Lines 81-82: std::packaged_task task(f); auto result = task.get_future().
\* `this` is d: com_dispatcher for the entry points, the object under
\* destruction for the destructor.
BeginDispatch(c, d, w) ==
    /\ work' = [work EXCEPT ![c] = w]
    /\ callNo' = [callNo EXCEPT ![c] = @ + 1]
    /\ cg' = [cg EXCEPT ![c] = d]
    /\ future' = [future EXCEPT ![c] = NoResult]
    /\ observed' = [observed EXCEPT ![c] = NoResult]
    /\ ran' = [ran EXCEPT ![c] = 0]
    /\ pc' = [pc EXCEPT ![c] = "d_task"]

\* init_enchant_provider, line 520: com_dispatcher->dispatch(<create provider>).
CallCreate(c) ==
    /\ ~Crashed
    /\ pc[c] = "init_call"
    /\ HostCalls
    /\ \E r \in BOOLEAN : BeginDispatch(c, com_dispatcher, Work("create", r))
    /\ UNCHANGED <<regVars, dispVars, obsVars>>

\* A provider or dictionary entry point (lines 257-479).
CallOp(c) ==
    /\ ~Crashed
    /\ pc[c] = "have"
    /\ HostCalls
    /\ \E r \in BOOLEAN : BeginDispatch(c, com_dispatcher, Work("op", r))
    /\ UNCHANGED <<regVars, dispVars, obsVars>>

\* windows_provider_dispose, line 486: com_dispatcher->dispatch(<delete provider>).
CallDelete(c) ==
    /\ ~Crashed
    /\ pc[c] = "have"
    /\ HostCalls
    /\ BeginDispatch(c, com_dispatcher, Work("delete", FALSE))
    /\ UNCHANGED <<regVars, dispVars, obsVars>>

\* condition_variable::notify_all(): a thread blocked in wait() is woken and
\* has to re-acquire the mutex; with no thread blocked the call does nothing.
NotifyAll(p) == IF p = "waiting" THEN "woken" ELSE p

\* Variant of DispatchLock: the caller does not hand the task over but runs it
\* itself, on its own thread.
DispatchInline(c) ==
    /\ ~Crashed
    /\ pc[c] = "d_task"
    /\ active' = active \cup {<<c, c>>}
    /\ pc' = [pc EXCEPT ![c] = "d_wait"]
    /\ UNCHANGED <<regVars, dispVars, work, callNo, cg, future, observed, ran, obj,
                   pending>>

\* Line 86: std::unique_lock<std::mutex> lock(processing_mutex).
DispatchLock(c) ==
    /\ ~Crashed
    /\ pc[c] = "d_task"
    /\ processing_mutex[cg[c]] = NoThread
    /\ processing_mutex' = [processing_mutex EXCEPT ![cg[c]] = c]
    /\ pending' = IF future[c] = NoResult THEN Append(pending, c) ELSE pending
    /\ pc' = [pc EXCEPT ![c] = "d_locked"]
    /\ UNCHANGED <<regVars, running, dispatched_function, wpc, hr, uninits, cur,
                   work, callNo, cg, future, observed, ran, obj, active>>

\* Lines 87-91: dispatched_function = [&task]{ task(); }; notify_all(); unlock.
DispatchStore(c) ==
    /\ ~Crashed
    /\ pc[c] = "d_locked"
    /\ dispatched_function' = [dispatched_function EXCEPT ![cg[c]] = <<c, callNo[c]>>]
    /\ wpc' = [wpc EXCEPT ![cg[c]] = NotifyAll(@)]
    /\ processing_mutex' = [processing_mutex EXCEPT ![cg[c]] = NoThread]
    /\ pc' = [pc EXCEPT ![c] = "d_wait"]
    /\ UNCHANGED <<regVars, running, hr, uninits, cur, work, callNo, cg, future,
                   observed, ran, obsVars>>

\* Variant of ResultReady: dispatch() does not wait for its future.
ResultReadyNoWait(c) == TRUE

\* Line 94: result.wait() returns once the task's shared state is ready.
ResultReady(c) == future[c] # NoResult

\* Variant of AfterDispatch: the destructor does not join the thread after its
\* dispatch() call returned.
AfterDispatchNoJoin(w, out) ==
    IF IsError(out) THEN "threw"
    ELSE CASE w.kind = "create" -> "have"
           [] w.kind = "op" -> "have"
           [] w.kind = "delete" -> "release"
           [] OTHER -> "rel_dec"

\* Where the entry point continues after dispatch() returned `out`: an error is
\* rethrown by result.get() and leaves the entry point ("threw").
AfterDispatch(w, out) ==
    IF IsError(out) THEN "threw"
    ELSE CASE w.kind = "create" -> "have"
           [] w.kind = "op" -> "have"
           [] w.kind = "delete" -> "release"
           [] OTHER -> "join"

\* Lines 94-96: result.wait(); return result.get(); task is destroyed.
DispatchReturn(c) ==
    /\ ~Crashed
    /\ pc[c] = "d_wait"
    /\ ResultReady(c)
    /\ observed' = [observed EXCEPT ![c] = future[c]]
    /\ pc' = [pc EXCEPT ![c] = AfterDispatch(work[c], future[c])]
    /\ UNCHANGED <<regVars, dispVars, work, callNo, cg, future, ran, obsVars>>

\* Line 515: init_enchant_provider is declared _NOEXCEPT.  An exception that
\* reaches its boundary (from com_dispatcher_addref, or rethrown by the create
\* call's result.get()) ends the process with std::terminate where _NOEXCEPT
\* is noexcept; where it is throw() the build does not enforce it and the
\* exception goes on into the host (the caller stays at "addref_threw" or
\* "threw").
InitNoexceptTerminate(c) ==
    /\ ~Crashed
    /\ \/ pc[c] = "addref_threw"
       \/ pc[c] = "threw" /\ work[c].kind = "create"
    /\ pc' = [pc EXCEPT ![c] = "terminated"]
    /\ UNCHANGED <<regVars, dispVars, work, callNo, cg, future, observed, ran, obsVars>>

\* ------------------------------------------------- registry: release
ReleaseLock(c) ==
    /\ ~Crashed
    /\ pc[c] = "release"
    /\ CanLockRegistry(c)
    /\ com_dispatcher_mutex' = c
    /\ pc' = [pc EXCEPT ![c] = "rel_check"]
    /\ UNCHANGED <<com_dispatcher, com_dispatcher_refcount, nextGen, dispVars,
                   work, callNo, cg, future, observed, ran, obsVars>>

\* com_dispatcher.reset(): the pointer is set to null, then the old object is
\* deleted: ~CoThreadDispatcher starts with dispatch([&]{ running = false; }).
ReleaseReset(c) ==
    /\ ~Crashed
    /\ pc[c] = "rel_check"
    /\ ReleaseDestroys(com_dispatcher_refcount)
    /\ com_dispatcher # Null
    /\ com_dispatcher' = Null
    /\ obj' = [obj EXCEPT ![com_dispatcher] = "destroying"]
    /\ BeginDispatch(c, com_dispatcher, Work("stop", FALSE))
    /\ UNCHANGED <<com_dispatcher_mutex, com_dispatcher_refcount, nextGen, dispVars,
                   active, pending>>

ReleaseSkip(c) ==
    /\ ~Crashed
    /\ pc[c] = "rel_check"
    /\ ~(ReleaseDestroys(com_dispatcher_refcount) /\ com_dispatcher # Null)
    /\ pc' = [pc EXCEPT ![c] = "rel_dec"]
    /\ UNCHANGED <<regVars, dispVars, work, callNo, cg, future, observed, ran, obsVars>>

\* Variant of ThreadJoined: the destructor does not join (the thread is detached).
ThreadJoinedNoJoin(g) == TRUE

\* dispatch_thread.join() returns once threadProc has returned.
ThreadJoined(g) == wpc[g] = "exited"

\* Line 70, then the members are destroyed and the destructor returns.
DtorJoin(c) ==
    /\ ~Crashed
    /\ pc[c] = "join"
    /\ ThreadJoined(cg[c])
    /\ obj' = [obj EXCEPT ![cg[c]] = "destroyed"]
    /\ dispatched_function' = [dispatched_function EXCEPT ![cg[c]] = NoFn]
    /\ pc' = [pc EXCEPT ![c] = "rel_dec"]
    /\ UNCHANGED <<regVars, running, processing_mutex, wpc, hr, uninits, cur,
                   work, callNo, cg, future, observed, ran, active, pending>>

\* Variant of ReleaseDec: com_dispatcher_release returns without the decrement.
ReleaseNoDec(c) ==
    /\ ~Crashed
    /\ pc[c] = "rel_dec"
    /\ com_dispatcher_mutex' = NoThread
    /\ pc' = [pc EXCEPT ![c] = "idle"]
    /\ UNCHANGED <<com_dispatcher, com_dispatcher_refcount, nextGen, dispVars, work,
                   callNo, cg, future, observed, ran, obsVars>>

\* --com_dispatcher_refcount; the lock_guard unlocks on return.
ReleaseDec(c) ==
    /\ ~Crashed
    /\ pc[c] = "rel_dec"
    /\ com_dispatcher_refcount' = com_dispatcher_refcount - 1
    /\ com_dispatcher_mutex' = NoThread
    /\ pc' = [pc EXCEPT ![c] = "idle"]
    /\ UNCHANGED <<com_dispatcher, nextGen, dispVars, work, callNo, cg, future,
                   observed, ran, obsVars>>

\* ------------------------------------------------- threadProc (worker)
\* Line 102: std::unique_lock<std::mutex> lock(processing_mutex); then line
\* 105 enters CoInitializeEx.
WorkerStart(g) ==
    /\ ~Crashed
    /\ wpc[g] = "spawned"
    /\ processing_mutex[g] = NoThread
    /\ processing_mutex' = [processing_mutex EXCEPT ![g] = WorkerOf(g)]
    /\ wpc' = [wpc EXCEPT ![g] = "coinit"]
    /\ UNCHANGED <<regVars, running, dispatched_function, hr, uninits, cur,
                   callerVars, obsVars>>

\* Lines 105-107: CoInitializeEx returns (success or failure, both kept in hr);
\* running = true.
WorkerCoInit(g) ==
    /\ ~Crashed
    /\ wpc[g] = "coinit"
    /\ \E r \in {"ok", "failed"} : hr' = [hr EXCEPT ![g] = r]
    /\ running' = [running EXCEPT ![g] = TRUE]
    /\ wpc' = [wpc EXCEPT ![g] = "loop"]
    /\ UNCHANGED <<regVars, processing_mutex, dispatched_function, uninits, cur,
                   callerVars, obsVars>>

\* Lines 109-112: while (running) dispatch_begin.wait(lock): the mutex is
\* released and the thread blocks, atomically.
WorkerWait(g) ==
    /\ ~Crashed
    /\ wpc[g] = "loop"
    /\ running[g]
    /\ processing_mutex' = [processing_mutex EXCEPT ![g] = NoThread]
    /\ wpc' = [wpc EXCEPT ![g] = "waiting"]
    /\ UNCHANGED <<regVars, running, dispatched_function, hr, uninits, cur,
                   callerVars, obsVars>>

\* Line 109 with running false: the loop is left.
WorkerLeave(g) ==
    /\ ~Crashed
    /\ wpc[g] = "loop"
    /\ ~running[g]
    /\ wpc' = [wpc EXCEPT ![g] = "couninit"]
    /\ UNCHANGED <<regVars, running, processing_mutex, dispatched_function, hr,
                   uninits, cur, callerVars, obsVars>>

\* condition_variable::wait(lock) has no predicate: it may return without any
\* notify_all() (a spurious wake-up).
WorkerSpuriousWake(g) ==
    /\ ~Crashed
    /\ wpc[g] = "waiting"
    /\ wpc' = [wpc EXCEPT ![g] = "woken"]
    /\ UNCHANGED <<regVars, running, processing_mutex, dispatched_function, hr,
                   uninits, cur, callerVars, obsVars>>

\* wait() re-acquires the mutex before it returns.
WorkerReacquire(g) ==
    /\ ~Crashed
    /\ wpc[g] = "woken"
    /\ processing_mutex[g] = NoThread
    /\ processing_mutex' = [processing_mutex EXCEPT ![g] = WorkerOf(g)]
    /\ wpc' = [wpc EXCEPT ![g] = "call"]
    /\ UNCHANGED <<regVars, running, dispatched_function, hr, uninits, cur,
                   callerVars, obsVars>>

\* The callable of task c starts to run on the thread of dispatcher g.
StartTask(g, c) ==
    /\ wpc' = [wpc EXCEPT ![g] = "exec"]
    /\ cur' = [cur EXCEPT ![g] = c]
    /\ active' = active \cup {<<WorkerOf(g), c>>}

\* An exception leaves threadProc (or the process faults): std::terminate.
Terminate(g) ==
    /\ wpc' = [wpc EXCEPT ![g] = "terminated"]
    /\ UNCHANGED <<cur, active>>

\* Line 114, dispatched_function refers to a live task that has not run.
WorkerInvokeTask(g) ==
    /\ ~Crashed
    /\ wpc[g] = "call"
    /\ dispatched_function[g] # NoFn
    /\ LET c == dispatched_function[g][1]
           n == dispatched_function[g][2]
       IN /\ TaskAlive(c, n)
          /\ future[c] = NoResult
          /\ StartTask(g, c)
    /\ UNCHANGED <<regVars, running, processing_mutex, dispatched_function, hr,
                   uninits, callerVars, obj, pending>>

\* Line 114 with an empty std::function: std::bad_function_call is thrown.
WorkerInvokeEmpty(g) ==
    /\ ~Crashed
    /\ wpc[g] = "call"
    /\ dispatched_function[g] = NoFn
    /\ Terminate(g)
    /\ UNCHANGED <<regVars, running, processing_mutex, dispatched_function, hr,
                   uninits, callerVars, obj, pending>>

\* Line 114 on a live task that already ran: packaged_task::operator() throws
\* std::future_error (promise_already_satisfied) without running the callable.
WorkerInvokeSatisfied(g) ==
    /\ ~Crashed
    /\ wpc[g] = "call"
    /\ dispatched_function[g] # NoFn
    /\ LET c == dispatched_function[g][1]
           n == dispatched_function[g][2]
       IN /\ TaskAlive(c, n)
          /\ future[c] # NoResult
          /\ Terminate(g)
    /\ UNCHANGED <<regVars, running, processing_mutex, dispatched_function, hr,
                   uninits, callerVars, obj, pending>>

\* Line 114 when the dispatch() call that stored the lambda has returned: the
\* captured reference to its stack-allocated task dangles (undefined
\* behaviour).  Outcomes: the process faults or an exception escapes; the call
\* returns without effect; or the stack slot now holds the task of the same
\* thread's next dispatch() call, which is then invoked.
WorkerInvokeDangling(g) ==
    /\ ~Crashed
    /\ wpc[g] = "call"
    /\ dispatched_function[g] # NoFn
    /\ LET c == dispatched_function[g][1]
           n == dispatched_function[g][2]
       IN /\ ~TaskAlive(c, n)
          /\ \/ Terminate(g)
             \/ /\ wpc' = [wpc EXCEPT ![g] = "loop"]
                /\ UNCHANGED <<cur, active>>
             \/ /\ InDispatch(c)
                /\ future[c] = NoResult
                /\ StartTask(g, c)
    /\ UNCHANGED <<regVars, running, processing_mutex, dispatched_function, hr,
                   uninits, callerVars, obj, pending>>

\* Variant of Fulfil: one result cell shared by the dispatcher instead of a
\* future per call: every caller waiting in dispatch() receives the outcome.
FulfilShared(fut, c, out) ==
    [x \in Callers |-> IF x = c \/ pc[x] = "d_wait" THEN out ELSE fut[x]]

\* packaged_task::operator() stores the callable's value or exception in the
\* shared state of that task's own future.
Fulfil(fut, c, out) == [fut EXCEPT ![c] = out]

\* Variant of WorkerPcAfterTask: the callable is invoked without a
\* packaged_task, so its exception leaves threadProc.
WorkerPcNoCatch(out) == IF IsError(out) THEN "terminated" ELSE "loop"

\* task() returns normally whatever the callable did (an exception is kept in
\* the shared state), so line 114 falls through to the loop test.
WorkerPcAfterTask(out) == "loop"

\* Variant of RunningAfterTask: the lambda of windows_provider_dispose stops
\* the thread as well, before the registry decided to destroy the dispatcher.
RunningClearedByDispose(r, c) ==
    IF work[c].kind \in {"stop", "delete"} THEN [r EXCEPT ![cg[c]] = FALSE] ELSE r

\* The callable's effect on `running`: only the destructor's lambda writes it.
RunningAfterTask(r, c) ==
    IF work[c].kind = "stop" THEN [r EXCEPT ![cg[c]] = FALSE] ELSE r

\* Line 114 returns: the callable ran to completion on the worker thread.
WorkerFinish(g) ==
    /\ ~Crashed
    /\ wpc[g] = "exec"
    /\ LET c == cur[g]
           out == Outcome(c, work[c])
       IN /\ future' = Fulfil(future, c, out)
          /\ ran' = [ran EXCEPT ![c] = @ + 1]
          /\ running' = RunningAfterTask(running, c)
          /\ wpc' = [wpc EXCEPT ![g] = WorkerPcAfterTask(out)]
          /\ active' = active \ {<<WorkerOf(g), c>>}
          /\ pending' = SelectSeq(pending, LAMBDA x : x # c)
    /\ cur' = [cur EXCEPT ![g] = Null]
    /\ UNCHANGED <<regVars, processing_mutex, dispatched_function, hr, uninits,
                   pc, work, callNo, cg, observed, obj>>

\* Variant of WorkerCoUninit: CoUninitialize() is called without the
\* SUCCEEDED(hr) test.
WorkerCoUninitAlways(g) ==
    /\ ~Crashed
    /\ wpc[g] = "couninit"
    /\ uninits' = [uninits EXCEPT ![g] = @ + 1]
    /\ wpc' = [wpc EXCEPT ![g] = "return"]
    /\ UNCHANGED <<regVars, running, processing_mutex, dispatched_function, hr, cur,
                   callerVars, obsVars>>

\* Lines 45-49: threadProc returns; its locals are destroyed in reverse order of
\* declaration, comInit first: ~CoInitializer calls CoUninitialize() if
\* SUCCEEDED(hr).
WorkerCoUninit(g) ==
    /\ ~Crashed
    /\ wpc[g] = "couninit"
    /\ uninits' = [uninits EXCEPT ![g] = IF hr[g] = "ok" THEN @ + 1 ELSE @]
    /\ wpc' = [wpc EXCEPT ![g] = "return"]
    /\ UNCHANGED <<regVars, running, processing_mutex, dispatched_function, hr, cur,
                   callerVars, obsVars>>

\* Line 116: then the unique_lock unlocks processing_mutex and the thread ends.
WorkerReturn(g) ==
    /\ ~Crashed
    /\ wpc[g] = "return"
    /\ processing_mutex' = [processing_mutex EXCEPT ![g] = NoThread]
    /\ wpc' = [wpc EXCEPT ![g] = "exited"]
    /\ UNCHANGED <<regVars, running, dispatched_function, hr, uninits, cur,
                   callerVars, obsVars>>

\* ------------------------------------------------------------------ Next
Next ==
    \/ \E c \in Callers : InitProvider(c)
    \/ \E c \in Callers : AddrefLock(c)
    \/ \E c \in Callers : AddrefConstruct(c)
    \/ \E c \in Callers : AddrefThrow(c)
    \/ \E c \in Callers : AddrefSkip(c)
    \/ \E c \in Callers : AddrefInc(c)
    \/ \E c \in Callers : CallCreate(c)
    \/ \E c \in Callers : CallOp(c)
    \/ \E c \in Callers : CallDelete(c)
    \/ \E c \in Callers : DispatchLock(c)
    \/ \E c \in Callers : DispatchStore(c)
    \/ \E c \in Callers : DispatchReturn(c)
    \/ \E c \in Callers : InitNoexceptTerminate(c)
    \/ \E c \in Callers : ReleaseLock(c)
    \/ \E c \in Callers : ReleaseReset(c)
    \/ \E c \in Callers : ReleaseSkip(c)
    \/ \E c \in Callers : DtorJoin(c)
    \/ \E c \in Callers : ReleaseDec(c)
    \/ \E g \in Gens : WorkerStart(g)
    \/ \E g \in Gens : WorkerCoInit(g)
    \/ \E g \in Gens : WorkerWait(g)
    \/ \E g \in Gens : WorkerLeave(g)
    \/ \E g \in Gens : WorkerSpuriousWake(g)
    \/ \E g \in Gens : WorkerReacquire(g)
    \/ \E g \in Gens : WorkerInvokeTask(g)
    \/ \E g \in Gens : WorkerInvokeEmpty(g)
    \/ \E g \in Gens : WorkerInvokeSatisfied(g)
    \/ \E g \in Gens : WorkerInvokeDangling(g)
    \/ \E g \in Gens : WorkerFinish(g)
    \/ \E g \in Gens : WorkerCoUninit(g)
    \/ \E g \in Gens : WorkerReturn(g)

Spec == Init /\ [][Next]_vars

\* Scheduling: a thread that can take a step of its program eventually takes
\* it, and a thread that can lock a mutex again and again eventually gets it.
\* Whether the host calls an entry point (InitProvider, CallOp, CallDelete) and
\* whether wait() wakes spuriously are not guaranteed.
ThreadStep(c) ==
    \/ AddrefLock(c) \/ AddrefConstruct(c) \/ AddrefThrow(c) \/ AddrefSkip(c)
    \/ AddrefInc(c) \/ CallCreate(c) \/ DispatchLock(c) \/ DispatchStore(c)
    \/ DispatchReturn(c) \/ ReleaseLock(c) \/ ReleaseReset(c) \/ ReleaseSkip(c)
    \/ DtorJoin(c) \/ ReleaseDec(c)

WorkerRun(g) ==
    \/ WorkerStart(g) \/ WorkerCoInit(g) \/ WorkerWait(g) \/ WorkerLeave(g)
    \/ WorkerReacquire(g) \/ WorkerInvokeTask(g) \/ WorkerInvokeEmpty(g)
    \/ WorkerInvokeSatisfied(g) \/ WorkerInvokeDangling(g) \/ WorkerFinish(g)
    \/ WorkerCoUninit(g) \/ WorkerReturn(g)

SpecFair ==
    /\ Spec
    /\ \A c \in Callers : SF_vars(ThreadStep(c))
    /\ \A g \in Gens : SF_vars(WorkerRun(g))

TypeOK ==
    /\ com_dispatcher_mutex \in {NoThread} \cup Callers
    /\ com_dispatcher \in {Null} \cup Gens
    /\ com_dispatcher_refcount \in 0..NumCallers
    /\ nextGen \in 1..(MaxGen + 1)
    /\ running \in [Gens -> BOOLEAN]
    /\ \A g \in Gens : processing_mutex[g] \in {NoThread, WorkerOf(g)} \cup Callers
    /\ \A g \in Gens : dispatched_function[g] = NoFn
                       \/ dispatched_function[g] \in Callers \X (1..(MaxCalls + 1))
    /\ \A g \in Gens : wpc[g] \in {"none", "spawned", "coinit", "loop", "waiting",
                                   "woken", "call", "exec", "couninit", "return",
                                   "exited", "terminated"}
    /\ \A g \in Gens : hr[g] \in {"none", "ok", "failed"}
    /\ \A g \in Gens : cur[g] \in {Null} \cup Callers
    /\ \A c \in Callers : pc[c] \in {"idle", "addref", "addref_check", "addref_inc",
                                     "addref_threw", "init_call", "d_task", "d_locked",
                                     "d_wait", "have", "threw", "release", "rel_check",
                                     "join", "rel_dec", "terminated"}
    /\ \A c \in Callers : callNo[c] \in 0..(MaxCalls + 1)
    /\ \A c \in Callers : ran[c] \in 0..1
    /\ active \subseteq (Threads \X Callers)

\* ================================================================ claims
\* The task of caller c's current dispatch() call has been stored in the
\* pending-work slot and has not run.
Submitted(c) == pc[c] = "d_wait" /\ future[c] = NoResult

Executing(c) == \E g \in Gens : cur[g] = c

\* C1: every submitted unit of work is executed exactly once: none is
\* executed twice, and a unit that has been submitted and has not run yet is
\* still in the pending-work slot of its dispatcher or is being executed (it
\* has not been replaced before the worker picked it up).
C1_EveryWorkExecutedOnce ==
    \A c \in Callers :
        /\ ran[c] <= 1
        /\ (Submitted(c) /\ ~Executing(c))
               => dispatched_function[cg[c]] = <<c, callNo[c]>>

\* C2: at most one unit of work is executing, and none executes while the
\* thread of its dispatcher is inside CoInitializeEx or CoUninitialize.
C2_WorkSerialized ==
    /\ Cardinality(active) <= 1
    /\ \A a \in active : wpc[cg[a[2]]] \notin {"coinit", "couninit"}

\* C2 witness: a unit of work is executing while another caller's submission
\* is waiting for the worker.
C2_Witness ==
    \E a \in active : \E c \in Callers : c # a[2] /\ Submitted(c)

\* C3: a dispatch() call returns only after the callable of that same call has
\* run to completion.
C3_ReturnsAfterOwnWork ==
    [][\A c \in Callers :
          (pc[c] = "d_wait" /\ pc'[c] # "d_wait") => (ran[c] = 1 /\ ~Executing(c))]_vars

\* C3 witness: a dispatch() call has returned a value to its caller.
C3_Witness ==
    \E c \in Callers : pc[c] = "have" /\ observed[c] # NoResult /\ ran[c] = 1

\* The submission of c is the first one its dispatcher receives: the create
\* call of init_enchant_provider, no other thread having used the dispatcher.
FirstSubmission(c) ==
    /\ work[c].kind = "create"
    /\ \A d \in Callers \ {c} : cg[d] # cg[c]

\* C4: the "work available" signal of the first submission after construction
\* is never lost: the worker is never blocked in wait() while that submission
\* sits in the slot, already notified and not run.
C4_FirstSignalNotLost ==
    \A c \in Callers :
        (Submitted(c) /\ FirstSubmission(c)
           /\ dispatched_function[cg[c]] = <<c, callNo[c]>>)
            => wpc[cg[c]] # "waiting"

\* C5: work items are executed in the order in which their dispatch() calls
\* acquired processing_mutex: the item being executed is the earliest locked
\* one among those not yet executed.
C5_ExecutedInLockOrder ==
    \A g \in Gens : cur[g] # Null => (pending # <<>> /\ Head(pending) = cur[g])

\* C6: what a caller observes from dispatch() is the outcome of the callable
\* of that same call (its value, or its error rethrown), never another call's.
C6_OwnOutcome ==
    \A c \in Callers : observed[c] # NoResult => observed[c] = Outcome(c, work[c])

\* C6 witness: one caller has observed the error of its callable and another
\* caller the value of its own.
C6_Witness ==
    \E c, d \in Callers :
        /\ c # d
        /\ observed[c] = <<"error", c, work[c].kind>>
        /\ observed[d] = <<"value", d, work[d].kind>>

\* C7: when the callable being executed raises, the worker thread does not
\* terminate and running stays set: it goes back to the loop test with
\* running true, which is where it waits for the next submission (WorkerWait).
C7_WorkerSurvivesFailure ==
    [][\A g \in Gens :
          (wpc[g] = "exec" /\ work[cur[g]].raises /\ wpc'[g] # "exec")
              => (wpc'[g] = "loop" /\ running'[g] /\ ~Crashed')]_vars

\* C7 witness: after a callable failed on it, the same worker thread is
\* executing the callable of a later submission.
C7_Witness ==
    \E c, d \in Callers : \E g \in Gens :
        /\ c # d
        /\ pc[c] = "threw" /\ IsError(observed[c]) /\ cg[c] = g
        /\ cur[g] = d /\ cg[d] = g /\ wpc[g] = "exec"

RegistryUnlocked == com_dispatcher_mutex = NoThread

\* C8: whenever the registry mutex is not held, the count is positive exactly
\* when the shared dispatcher exists.
C8_CountIffDispatcher ==
    RegistryUnlocked => (com_dispatcher_refcount > 0 <=> com_dispatcher # Null)

\* C8 witness: after a first dispatcher was released and destroyed, a second
\* one is shared with a positive count.
C8_Witness ==
    /\ RegistryUnlocked
    /\ com_dispatcher = 2
    /\ com_dispatcher_refcount > 0
    /\ obj[1] = "destroyed"

\* The caller has returned from com_dispatcher_addref and has not entered the
\* matching com_dispatcher_release.
Holds(c) ==
    pc[c] \in {"init_call", "d_task", "d_locked", "d_wait", "have", "threw", "release"}

\* C9: when all M host threads have acquired, starting from count 0 and with
\* no dispatcher destroyed so far, exactly one dispatcher (and one worker
\* thread) has been constructed and the count is M.
C9_OneConstruction ==
    (/\ RegistryUnlocked
     /\ \A c \in Callers : Holds(c)
     /\ \A g \in Gens : obj[g] \in {"none", "alive"})
        => /\ com_dispatcher_refcount = Cardinality(Callers)
           /\ Cardinality({g \in Gens : obj[g] = "alive"}) = 1
           /\ Cardinality({g \in Gens : wpc[g] # "none"}) = 1

\* C9 witness: every host thread holds a reference to the one dispatcher.
C9_Witness ==
    /\ RegistryUnlocked
    /\ \A c \in Callers : Holds(c)
    /\ com_dispatcher_refcount = Cardinality(Callers)
    /\ nextGen = 2

\* The caller is inside com_dispatcher_release, holding the registry mutex.
InRelease(c) ==
    \/ pc[c] \in {"rel_check", "join", "rel_dec"}
    \/ InDispatch(c) /\ work[c].kind = "stop"

\* C10: (a) once the last release has returned (count 0, registry unlocked) no
\* dispatcher exists and every worker thread that was started has terminated;
\* (b) a release in progress is never stuck: unless the process was terminated,
\* the releasing thread or the worker it waits for can take its next step;
\* (c) a dispatcher constructed by a later acquire is a fresh object with a
\* newly started thread, constructed when no other worker thread is alive.
C10_ReleasedThenFresh ==
    /\ [](RegistryUnlocked /\ com_dispatcher_refcount = 0
            => /\ com_dispatcher = Null
               /\ \A g \in Gens : wpc[g] \in {"none", "exited"}
               /\ \A g \in Gens : obj[g] \in {"none", "destroyed"})
    /\ [](\A c \in Callers :
            InRelease(c) /\ ~Crashed
                => (ENABLED ThreadStep(c)) \/ (ENABLED WorkerRun(cg[c])))
    /\ [][com_dispatcher' # com_dispatcher /\ com_dispatcher' # Null
            => /\ obj[com_dispatcher'] = "none" /\ obj'[com_dispatcher'] = "alive"
               /\ wpc[com_dispatcher'] = "none" /\ wpc'[com_dispatcher'] = "spawned"
               /\ \A g \in Gens \ {com_dispatcher'} : wpc[g] \in {"none", "exited"}]_vars

\* Under SpecFair a release that has locked the registry returns, unless the
\* process is terminated meanwhile.
ReleaseReturns ==
    \A c \in Callers : (pc[c] = "rel_check") ~> (pc[c] = "idle" \/ Crashed)

\* C10 witness: the first dispatcher was destroyed and its thread has
\* terminated; a later acquire has constructed the second one.
C10_Witness ==
    /\ obj[1] = "destroyed" /\ wpc[1] = "exited"
    /\ com_dispatcher = 2 /\ obj[2] = "alive" /\ wpc[2] # "none"

\* The thread of dispatcher g has been started and has not returned from
\* threadProc.
ThreadAlive(g) == wpc[g] \notin {"none", "exited"}

\* The dispatcher object g exists: constructed, destructor not yet completed.
ObjectAlive(g) == obj[g] \in {"alive", "destroying"}

\* C11: at every moment at most one dispatcher object exists and at most one
\* worker thread is alive, and they belong together; in particular a
\* dispatcher is never constructed while the thread of an earlier one is still
\* alive.
C11_OnePairAlive ==
    /\ Cardinality({g \in Gens : ObjectAlive(g)}) <= 1
    /\ Cardinality({g \in Gens : ThreadAlive(g)}) <= 1
    /\ \A g, h \in Gens : ObjectAlive(g) /\ ThreadAlive(h) => g = h

\* C11 witness: the last release of the first dispatcher races with the first
\* acquire of the next: one host thread waits in the destructor for the old
\* worker thread, which is still alive, while another has entered
\* com_dispatcher_addref.
C11_Witness ==
    \E c, d \in Callers :
        /\ pc[c] = "addref"
        /\ pc[d] = "join" /\ ThreadAlive(cg[d]) /\ obj[cg[d]] = "destroying"

\* C12: on destruction of a dispatcher the events happen in the order
\* CoUninitialize, exit of the worker thread, completion of the destructor,
\* count becoming 0: a thread that has exited after a successful CoInitializeEx
\* has called CoUninitialize; a destroyed dispatcher's thread has exited; and
\* the step that brings the count to 0 is taken with every constructed
\* dispatcher destroyed.
C12_TeardownOrder ==
    /\ [](\A g \in Gens :
            /\ (wpc[g] = "exited" /\ hr[g] = "ok") => uninits[g] = 1
            /\ obj[g] = "destroyed" => wpc[g] = "exited")
    /\ [][(com_dispatcher_refcount # 0 /\ com_dispatcher_refcount' = 0)
            => \A g \in Gens : obj[g] \in {"none", "destroyed"}]_vars

\* C12 witness: a dispatcher whose CoInitializeEx succeeded has gone through
\* all four events: the count is back to 0 after its destruction.
C12_Witness ==
    /\ RegistryUnlocked
    /\ com_dispatcher_refcount = 0
    /\ \E g \in Gens :
          obj[g] = "destroyed" /\ wpc[g] = "exited" /\ hr[g] = "ok" /\ uninits[g] = 1

C14_OnlyWorkerThread ==
    /\ [](\A a \in active :
            LET c == a[2]
                g == cg[c]
            IN /\ a[1] = WorkerOf(g)
               /\ a[1] \notin Callers
               /\ wpc[g] = "exec" /\ cur[g] = c
               /\ hr[g] # "none" /\ uninits[g] = 0)
    /\ [][\A g \in Gens :
            (hr'[g] # hr[g] \/ uninits'[g] # uninits[g])
                => /\ wpc[g] \in {"coinit", "couninit"}
                   /\ wpc'[g] # wpc[g]
                   /\ pc' = pc]_vars

\* C14 witness: the worker thread, COM initialised, is executing a provider
\* operation on behalf of a host thread that waits in dispatch().
C14_Witness ==
    \E g \in Gens : \E c \in Callers :
        /\ <<WorkerOf(g), c>> \in active
        /\ cur[g] = c /\ cg[c] = g
        /\ work[c].kind = "op"
        /\ hr[g] = "ok"
        /\ pc[c] = "d_wait"

\* The current submission of c was posted after the worker thread finished
\* context setup: it is not c's create call, so that call was executed by the
\* worker of the same dispatcher before.
PostedAfterSetup(c) == work[c].kind \in {"op", "delete", "stop"}

\* C15: when CoInitializeEx failed the dispatcher is still operational: the
\* worker has set running and entered the loop, and every work item posted
\* afterwards is executed: such an item, submitted and not yet run, is still in
\* the pending-work slot or being executed.
C15_OperationalAfterSetupFailure ==
    \A c \in Callers :
        (Submitted(c) /\ PostedAfterSetup(c) /\ hr[cg[c]] = "failed")
            => /\ running[cg[c]]
               /\ wpc[cg[c]] \in {"loop", "waiting", "woken", "call", "exec"}
               /\ Executing(c) \/ dispatched_function[cg[c]] = <<c, callNo[c]>>

\* C16: the pending-work slot never receives a new submission while an earlier
\* one is unfinished: no dispatcher ever has two dispatch() calls that have
\* both stored their work item (lines 87-91) and are both still waiting for
\* it to be executed.
C16_SlotNotOverwritten ==
    \A c, d \in Callers :
        (c # d /\ Submitted(c) /\ Submitted(d)) => cg[c] # cg[d]

\* The worker thread of g has cleared running: it ran the loop and left it, or
\* is about to.
Stopped(g) == hr[g] # "none" /\ ~running[g]

\* C17: the destructor's shutdown request comes after all work submitted
\* before it.  While the request is executed, and once running is cleared, no
\* other dispatch() call on that dispatcher is in progress or has a stored,
\* unexecuted work item; running is cleared only by the destructor's request;
\* and the destructor leaves join() only when the thread has exited.
C17_ShutdownAfterEarlierWork ==
    /\ [](\A g \in Gens : \A c \in Callers :
            (cur[g] = c /\ work[c].kind = "stop")
                => /\ cg[c] = g /\ obj[g] = "destroying"
                   /\ \A d \in Callers \ {c} : ~(InDispatch(d) /\ cg[d] = g)
                   /\ \A i \in 1..Len(pending) : pending[i] = c)
    /\ [](\A g \in Gens :
            Stopped(g)
                => /\ obj[g] \in {"destroying", "destroyed"}
                   /\ \A d \in Callers : ~(Submitted(d) /\ cg[d] = g))
    /\ [][\A c \in Callers :
            (pc[c] = "join" /\ pc'[c] # "join") => wpc[cg[c]] = "exited"]_vars

\* C17 witness: the worker executes the shutdown request of one host thread
\* after it executed the create and delete calls of another host thread on the
\* same dispatcher.
C17_Witness ==
    \E g \in Gens : \E c, d \in Callers :
        /\ c # d
        /\ cur[g] = c /\ work[c].kind = "stop" /\ wpc[g] = "exec"
        /\ cg[d] = g /\ pc[d] = "idle" /\ work[d].kind = "delete" /\ ran[d] = 1

\* C18: when the construction of the dispatcher fails inside
\* com_dispatcher_addref (the thread cannot be created), the exception leaves
\* the registry as it was: count 0, no dispatcher, no new dispatcher object or
\* thread, and com_dispatcher_mutex released.
C18_FailedConstructionLeavesRegistry ==
    [][\A c \in Callers :
          (pc[c] = "addref_check" /\ pc'[c] = "addref_threw")
              => /\ com_dispatcher_refcount = 0 /\ com_dispatcher_refcount' = 0
                 /\ com_dispatcher = Null /\ com_dispatcher' = Null
                 /\ com_dispatcher_mutex = c /\ com_dispatcher_mutex' = NoThread
                 /\ nextGen' = nextGen /\ obj' = obj /\ wpc' = wpc
                 /\ \A g \in Gens : ~ObjectAlive(g) /\ ~ThreadAlive(g)]_vars

\* C18 witness: after a dispatcher was used and destroyed, the construction of
\* the next one has failed for a host thread; the registry is unlocked with
\* count 0 and no dispatcher.
C18_Witness ==
    /\ \E c \in Callers : pc[c] = "addref_threw"
    /\ RegistryUnlocked
    /\ com_dispatcher_refcount = 0
    /\ com_dispatcher = Null
    /\ obj[1] = "destroyed"

\* The pending-work slot of g holds the lambda of a dispatch() call that is
\* still waiting and whose task has not run: a new submission.
SlotFresh(g) ==
    /\ dispatched_function[g] # NoFn
    /\ TaskAlive(dispatched_function[g][1], dispatched_function[g][2])
    /\ future[dispatched_function[g][1]] = NoResult

\* C19: the worker invokes the content of the pending-work slot (line 114)
\* only when a new work item has been stored since its last execution: when
\* wait() has returned and the slot is about to be invoked, the slot is not
\* empty and does not hold the lambda of a call that was already executed or
\* has returned.
C19_InvokesOnlyNewSubmission ==
    \A g \in Gens : wpc[g] = "call" => SlotFresh(g)

\* Number of CoUninitialize() calls that balances the CoInitializeEx of g.
Balanced(g) == IF hr[g] = "ok" THEN 1 ELSE 0

\* C20: per dispatcher, setup and teardown are balanced.  Once the shutdown
\* request has cleared running the worker executes no further work item: it
\* is at the loop test or past it.  CoUninitialize is called only after the
\* loop was left, never more often than CoInitializeEx succeeded, and a thread
\* that has done its teardown has called it once if setup succeeded and not at
\* all if setup failed.
C20_SetupTeardownBalanced ==
    \A g \in Gens :
        /\ Stopped(g)
              => /\ wpc[g] \in {"loop", "couninit", "return", "exited"}
                 /\ cur[g] = Null
                 /\ \A a \in active : a[1] # WorkerOf(g)
        /\ uninits[g] <= Balanced(g)
        /\ uninits[g] > 0 => (Stopped(g) /\ wpc[g] \in {"return", "exited"})
        /\ wpc[g] \in {"return", "exited"} => (Stopped(g) /\ uninits[g] = Balanced(g))

\* C20 witness: after executing the shutdown request the worker thread, whose
\* CoInitializeEx had succeeded, has called CoUninitialize once and is about
\* to end, the destructor waiting to join it.
C20_Witness ==
    \E g \in Gens :
        /\ Stopped(g) /\ wpc[g] = "return"
        /\ hr[g] = "ok" /\ uninits[g] = 1
        /\ obj[g] = "destroying"

====
